---- MODULE Spec2Model ----
(***************************************************************************)
(* The model transformation pipeline of the QAOA tutorial: the analyses    *)
(* and transformations of src/src/utils/transformations.py, driven by the  *)
(* PassManager (forward run, backward replay) as MyQAOA.run of             *)
(* src/src/utils/algorithm.py uses it.                                     *)
(***************************************************************************)
EXTENDS Integers, Sequences, FiniteSets, TLC

\* ------------------------------------------------------------------ bounds
NumVars == 4
MaxConstraints == 3
\* the constraints of the models that hold one-hot constraints only
MaxOneHots == 4
\* the terms of the objectives optimal-coloring is run on
MaxTerms == 3

\* ------------------------------------------------------- program constants
\* QuadraticPenaltyPass.__init__(penalty_factor=5.0)
PenaltyFactor == 5

\* ------------------------------------------------------------- basic data
\* A variable: the user's x1..xN, or a slack variable "sl_<name>_<i>".
X(k) == [pre |-> "x", tag |-> "user", id |-> k, i |-> 0, vtype |-> "Binary"]
UserVars == [k \in 1..NumVars |-> X(k)]

\* Constraint names: none, the user's name, "c<i>" and "eq_<name>".
NoName == [pre |-> "", tag |-> "none", id |-> 0]
UserName(k) == [pre |-> "", tag |-> "user", id |-> k]

\* A term of an expression: a monomial (the set of its variables) and a
\* coefficient; Linear has one variable, Quadratic two, HigherOrder more.
Term(vs, coef) == [vs |-> vs, coef |-> coef]
IsLinear(t) == Cardinality(t.vs) = 1
VarOf(t) == CHOOSE v \in t.vs : TRUE

Constraint(name, lhs, cmp, rhs) == [name |-> name, lhs |-> lhs, cmp |-> cmp, rhs |-> rhs]

\* lhs with coefficient c on each of the variables x_lo .. x_hi
Window(lo, hi, c) == [k \in 1..(hi - lo + 1) |-> Term({X(lo + k - 1)}, c)]

SeqToSet(s) == {s[k] : k \in 1..Len(s)}
RemoveAt(s, k) == SubSeq(s, 1, k - 1) \o SubSeq(s, k + 1, Len(s))
\* a list walked front to back where the source walks it back to front
InOrder(s) == s
Reverse(s) == [k \in 1..Len(s) |-> s[Len(s) + 1 - k]]
Abs(n) == IF n < 0 THEN -n ELSE n
Indexed(s) == [k \in 1..Len(s) |-> [k |-> k, v |-> s[k]]]

\* 1 << k
RECURSIVE Pow2(_)
Pow2(k) == IF k <= 0 THEN 1 ELSE 2 * Pow2(k - 1)

RECURSIVE SumOver(_, _)
\* the sum of f[k] over k in S
SumOver(f, S) ==
    IF S = {} THEN 0
    ELSE LET k == CHOOSE j \in S : TRUE IN f[k] + SumOver(f, S \ {k})

\* --------------------------------------------------- constraint addresses
\* `c.name or i`: a constraint is addressed by its name when it has one and
\* by its (0-based) position otherwise.
ByName(n) == [byName |-> TRUE, name |-> n, pos |-> 0]
ByPos(i) == [byName |-> FALSE, name |-> NoName, pos |-> i]
Addr(c, i) == IF c.name.tag # "none" THEN ByName(c.name) ELSE ByPos(i)

\* model.constraints[a]: the 1-based index the address denotes now, 0 if none
Locate(cs, a) ==
    IF a.byName
    THEN IF \E k \in 1..Len(cs) : cs[k].name = a.name
         THEN CHOOSE k \in 1..Len(cs) : cs[k].name = a.name /\ \A j \in 1..(k - 1) : cs[j].name # a.name
         ELSE 0
    ELSE IF a.pos + 1 \in 1..Len(cs) THEN a.pos + 1 ELSE 0

\* model.constraints.remove(a): NotFound when the address denotes nothing
ConstraintsRemove(cs, a) ==
    IF Locate(cs, a) = 0
    THEN [ok |-> FALSE, cs |-> cs]
    ELSE [ok |-> TRUE, cs |-> RemoveAt(cs, Locate(cs, a))]

\* removals one after the other, in the order of `as`, stopping at a failure
RECURSIVE RemoveEach(_, _)
RemoveEach(cs, as) ==
    IF Len(as) = 0 THEN [ok |-> TRUE, cs |-> cs]
    ELSE LET r == ConstraintsRemove(cs, Head(as))
         IN IF r.ok THEN RemoveEach(r.cs, Tail(as)) ELSE r

\* -------------------------------------------------------------- objective
\* The objective: terms in insertion order, keys unique, and a constant.
EmptyObjective == [terms |-> <<>>, offset |-> 0]

\* objective += ts[1] + ts[2] + ...: a term with an existing key adds to its
\* coefficient, a new key is appended (in the order of ts), a constant adds
\* to the offset
AddTerms(obj, ts) ==
    LET added(vs) == SumOver([k \in 1..Len(ts) |-> ts[k].coef], {k \in 1..Len(ts) : ts[k].vs = vs})
        old == [k \in 1..Len(obj.terms) |-> Term(obj.terms[k].vs, obj.terms[k].coef + added(obj.terms[k].vs))]
        fresh == SelectSeq(Indexed(ts), LAMBDA p :
                    /\ p.v.vs # {}
                    /\ \A k \in 1..Len(obj.terms) : obj.terms[k].vs # p.v.vs
                    /\ \A j \in 1..(p.k - 1) : ts[j].vs # p.v.vs)
    IN [terms |-> old \o [k \in 1..Len(fresh) |-> Term(fresh[k].v.vs, added(fresh[k].v.vs))],
        offset |-> obj.offset + added({})]

\* scale * (lhs - rhs) ** 2 as a list of products (binary: x * x = x)
SquaredPenalty(scale, lhs, rhs) ==
    LET e == Append(lhs, Term({}, -rhs))
        n == Len(e)
    IN [k \in 1..(n * n) |->
          LET a == e[((k - 1) \div n) + 1]
              b == e[((k - 1) % n) + 1]
          IN Term(a.vs \cup b.vs, scale * a.coef * b.coef)]

Model(variables, objective, constraints) ==
    [variables |-> variables, objective |-> objective, constraints |-> constraints]

\* ---------------------------------------------------------------- outcome
NoMeta == [removed |-> <<>>, remaining |-> <<>>, slacks |-> <<>>]
\* TransformationOutcome; err # "none" when the pass raised instead
Outcome(m, action, meta, err) == [model |-> m, action |-> action, meta |-> meta, err |-> err]
OutcomeNothing(m) == Outcome(m, "NoChange", NoMeta, "none")

\* ---------------------------------------------------------------- analyses
\* a test that looks at the kind of the terms and not at their coefficients
LinearOnlyTest(c) ==
    \A k \in 1..Len(c.lhs) : IsLinear(c.lhs[k])

\* identify_one_hot: every lhs term Linear with coefficient == rhs
OneHotTest(c) ==
    \A k \in 1..Len(c.lhs) : IsLinear(c.lhs[k]) /\ c.lhs[k].coef = c.rhs

identify_one_hot(m) ==
    LET hits == SelectSeq(Indexed(m.constraints), LAMBDA p : OneHotTest(p.v))
    IN [k \in 1..Len(hits) |-> Addr(hits[k].v, hits[k].k - 1)]

\* MaxBiasAnalysis: the largest absolute coefficient of the objective's
\* terms, 0 for an objective without terms
MaxBias(m) ==
    LET ts == m.objective.terms
    IN IF Len(ts) = 0 THEN 0
       ELSE CHOOSE b \in {Abs(ts[k].coef) : k \in 1..Len(ts)} :
                \A k \in 1..Len(ts) : Abs(ts[k].coef) <= b

\* ------------------------------------------------------- optimal_coloring
\* an edge test that takes equal sets only and misses those that overlap in
\* part
EqualSetEdges(to_color) ==
    {e \in (0..(Len(to_color) - 1)) \X (0..(Len(to_color) - 1)) :
        e[1] < e[2] /\ to_color[e[1] + 1] = to_color[e[2] + 1]}

\* the edges of g: the pairs (i, j), i before j, of to_color that intersect
ConflictEdges(to_color) ==
    {e \in (0..(Len(to_color) - 1)) \X (0..(Len(to_color) - 1)) :
        e[1] < e[2] /\ to_color[e[1] + 1] \cap to_color[e[2] + 1] # {}}

\* rx.graph_greedy_color(g): a colouring of the n nodes in which no edge
\* joins two nodes of one colour
Colourings(n, edges) ==
    {col \in [0..(n - 1) -> 0..(n - 1)] : \A e \in edges : col[e[1]] # col[e[2]]}

\* res.items(): the nodes in the order the routine reports them
ItemOrders(n) ==
    {p \in [1..n -> 0..(n - 1)] : \A i, j \in 1..n : i # j => p[i] # p[j]}

\* sorted(items, key=colour): by colour, items of one colour in their order
SortedByColour(items, col) ==
    [k \in 1..Len(items) |->
        items[CHOOSE i \in 1..Len(items) :
                Cardinality({j \in 1..Len(items) :
                    \/ col[items[j]] < col[items[i]]
                    \/ (col[items[j]] = col[items[i]] /\ j < i)}) = k - 1]]

\* optimal_coloring(model, _cache): the results it can have. A HigherOrder
\* key reaches set(*vs), which raises TypeError for three or more variables.
\* `colour` is the colour of each non-Linear term the order was built from.
optimal_coloring(m) ==
    LET ts == Indexed(m.objective.terms)
        lin == SelectSeq(ts, LAMBDA p : IsLinear(p.v))
        non == SelectSeq(ts, LAMBDA p : ~IsLinear(p.v))
        linear_first == [k \in 1..Len(lin) |-> lin[k].k - 1]
        nodes == [k \in 1..Len(non) |-> non[k].k - 1]
        to_color == [k \in 1..Len(non) |-> non[k].v.vs]
        n == Len(nodes)
    IN IF \E k \in 1..Len(ts) : Cardinality(ts[k].v.vs) >= 3
       THEN {[err |-> "TypeError", value |-> <<>>]}
       ELSE {[err |-> "none",
              value |-> [order |-> linear_first
                                     \o [k \in 1..n |-> nodes[SortedByColour(items, col)[k] + 1]],
                         colour |-> [t \in SeqToSet(nodes) |->
                                        col[(CHOOSE k \in 1..n : nodes[k] = t) - 1]]]] :
                col \in Colourings(n, ConflictEdges(to_color)), items \in ItemOrders(n)}

\* --------------------------------------------------------- remove_one_hot
\* [item.var for item, _ in c.lhs.items() if isinstance(item, Linear)]
LinearVars(c) ==
    LET lin == SelectSeq(c.lhs, IsLinear)
    IN [k \in 1..Len(lin) |-> VarOf(lin[k])]

\* random.Random(0), the generator `seed=0` stands for: the leading three
\* bits of its successive 32-bit outputs
SeedBits == <<6, 3, 6, 7, 3, 0, 2, 7, 4, 3, 3, 7, 6, 6, 2, 7, 3, 2, 4, 7, 7, 1, 4, 1>>

\* n.bit_length() for 1 <= n < 8
BitLength(n) == IF n >= 4 THEN 3 ELSE IF n >= 2 THEN 2 ELSE 1

RECURSIVE RandBelow(_, _)
\* seed.choice: the index below n drawn at draw d (getrandbits(k) until the
\* value is below n), and the draw that follows
RandBelow(n, d) ==
    LET r == SeedBits[d] \div Pow2(3 - BitLength(n))
    IN IF r < n THEN [r |-> r, d |-> d + 1] ELSE RandBelow(n, d + 1)

\* the first of the edges (in list order) that holds node n
FirstEdge(n, edges) ==
    CHOOSE e \in edges :
        /\ n \in {e[1], e[2]}
        /\ \A f \in edges : n \in {f[1], f[2]} => (e[1] < f[1] \/ (e[1] = f[1] /\ e[2] <= f[2]))

\* list(G) for G = nx.Graph(intersections): the nodes in the order the edge
\* list mentions them first
NodeList(nodes, edges) ==
    LET earlier(a, b) ==
            LET ea == FirstEdge(a, edges)
                eb == FirstEdge(b, edges)
            IN IF ea = eb THEN a = ea[1] /\ b = ea[2]
               ELSE ea[1] < eb[1] \/ (ea[1] = eb[1] /\ ea[2] < eb[2])
    IN [k \in 1..Cardinality(nodes) |->
          CHOOSE n \in nodes : Cardinality({o \in nodes : earlier(o, n)}) = k - 1]

\* a set of positions listed: small integers come in ascending order
Ascending(S) ==
    [k \in 1..Cardinality(S) |-> CHOOSE n \in S : Cardinality({o \in S : o < n}) = k - 1]

Neighbours(n, edges) ==
    {e[2] : e \in {f \in edges : f[1] = n}} \cup {e[1] : e \in {f \in edges : f[2] = n}}

RECURSIVE Extend(_, _, _, _, _)
\* the loop `while available_nodes`: seed.choice(list(available_nodes)). The
\* list of a set of strings comes in the order of their hashes, which differ
\* from one interpreter process to the next: any available node can stand at
\* the drawn index. Positions are listed in ascending order.
Extend(edges, hashed, indep, available, d) ==
    IF available = {} THEN {indep}
    ELSE LET rb == RandBelow(Cardinality(available), d)
             picks == IF hashed THEN available ELSE {Ascending(available)[rb.r + 1]}
         IN UNION {Extend(edges, hashed, indep \cup {n},
                          available \ (Neighbours(n, edges) \cup {n}), rb.d) : n \in picks}

\* nx.maximal_independent_set(G, seed=0): the sets it can return; `hashed`
\* when the nodes are constraint names
MaximalIndependentSets(nodes, edges, hashed) ==
    LET rb == RandBelow(Cardinality(nodes), 1)
        first == NodeList(nodes, edges)[rb.r + 1]
    IN Extend(edges, hashed, {first}, nodes \ (Neighbours(first, edges) \cup {first}), rb.d)

\* the outcome of remove_one_hot once `mis` (indices into one_hots) is chosen
RemoveSelected(m, info, conflicts, mis) ==
    LET kept == SelectSeq(Indexed(info), LAMBDA p : p.k \in mis)
        left == SelectSeq(Indexed(info), LAMBDA p : p.k \notin mis)
        removed == [k \in 1..Len(kept) |-> kept[k].v]
        remaining == IF conflicts THEN [k \in 1..Len(left) |-> left[k].v.addr] ELSE <<>>
        r == RemoveEach(m.constraints, [k \in 1..Len(removed) |-> removed[k].addr])
        after == [m EXCEPT !.constraints = r.cs]
    IN IF r.ok
       THEN Outcome(after, "DidTransform",
                    [removed |-> removed, remaining |-> remaining, slacks |-> <<>>], "none")
       ELSE Outcome(after, "Failed", NoMeta, "NotFound")

\* remove_one_hot(model, cache): the set of outcomes it can have
remove_one_hot(m, cache) ==
    LET one_hots == cache["identify-one-hot"]
        n == Len(one_hots)
    IN IF "identify-one-hot" \notin DOMAIN cache THEN {Outcome(m, "Failed", NoMeta, "NotComputed")}
       ELSE IF n = 0 THEN {OutcomeNothing(m)}
       ELSE IF \E k \in 1..n : Locate(m.constraints, one_hots[k]) = 0
       THEN {Outcome(m, "Failed", NoMeta, "NotFound")}
       ELSE
         LET info == [k \in 1..n |->
                        [addr |-> one_hots[k],
                         vars |-> LinearVars(m.constraints[Locate(m.constraints, one_hots[k])])]]
             intersections ==
                 {e \in (1..n) \X (1..n) :
                     e[1] < e[2] /\ SeqToSet(info[e[1]].vars) \cap SeqToSet(info[e[2]].vars) # {}}
             G == {e[1] : e \in intersections} \cup {e[2] : e \in intersections}
         IN IF intersections # {}
            THEN {RemoveSelected(m, info, TRUE, mis) :
                    mis \in MaximalIndependentSets(G, intersections, \E k \in G : one_hots[k].byName)}
            ELSE {RemoveSelected(m, info, FALSE, 1..n)}

\* --------------------------------------------------- QuadraticPenaltyPass
RECURSIVE PenaltyLoop(_, _, _, _)
\* the loop of run(): folds every equality into the objective
PenaltyLoop(cs, i, penalty, acc) ==
    IF i > Len(cs) THEN acc
    ELSE IF cs[i].cmp # "Eq" THEN PenaltyLoop(cs, i + 1, penalty, acc)
    ELSE PenaltyLoop(cs, i + 1, penalty,
            [objective |-> AddTerms(acc.objective, SquaredPenalty(penalty, cs[i].lhs, cs[i].rhs)),
             to_remove |-> Append(acc.to_remove, Addr(cs[i], i - 1))])

QuadraticPenaltyRun(m, cache) ==
    LET penalty == PenaltyFactor * cache["max-bias"]
        acc == PenaltyLoop(m.constraints, 1, penalty, [objective |-> m.objective, to_remove |-> <<>>])
        r == RemoveEach(m.constraints, Reverse(acc.to_remove))
        after == [m EXCEPT !.objective = acc.objective, !.constraints = r.cs]
    IN IF "max-bias" \notin DOMAIN cache THEN Outcome(m, "Failed", NoMeta, "NotComputed")
       ELSE IF Len(acc.to_remove) = 0 THEN OutcomeNothing(m)
       ELSE IF r.ok THEN Outcome(after, "DidTransform", NoMeta, "none")
       ELSE Outcome(after, "Failed", NoMeta, "NotFound")

\* ------------------------------------------------- inequality_to_equality
\* int(np.ceil(np.log2(dst))) for dst >= 1
CeilLog2(dst) == CHOOSE k \in 0..dst : Pow2(k) >= dst /\ (k = 0 \/ Pow2(k - 1) < dst)

\* int(v) of an integer v; a coefficient with a fractional part is a
\* FractionalTerm, which holds int(v)
IntOf(v) == v

\* a term whose coefficient v has a fractional part; coef holds int(v)
FractionalTerm(vs, ipart) == [vs |-> vs, coef |-> ipart, frac |-> TRUE]
\* int(v) == v
Integral(t) == "frac" \notin DOMAIN t

\* the lhs terms the encoding accepts: binary, Linear, integer coefficient
Supported(t) == IsLinear(t) /\ VarOf(t).vtype = "Binary" /\ Integral(t)

\* sum of int(v) over the coefficients of sign `sign` (max_v: 1, min_v: -1)
SumCoef(lhs, sign) ==
    SumOver([k \in 1..Len(lhs) |-> IF sign * lhs[k].coef > 0 THEN IntOf(lhs[k].coef) ELSE 0],
            1..Len(lhs))

\* the upper bound of the slack
SlackRange(c) ==
    IF c.cmp = "Le" THEN IntOf(c.rhs) - SumCoef(c.lhs, -1) ELSE SumCoef(c.lhs, 1) - IntOf(c.rhs)

\* num_var, last and coeff; err when the computation raises: log2 of a
\* number <= 0 has no integer value, and `dst - 1 << (num_var - 1) - 1`
\* parses as (dst - 1) << (num_var - 2), a negative shift for num_var < 2
SlackCoeff(dst) ==
    IF dst < 0 THEN [err |-> "ValueError", coeff |-> <<>>]
    ELSE IF dst = 0 THEN [err |-> "OverflowError", coeff |-> <<>>]
    ELSE LET num_var == CeilLog2(dst)
         IN IF num_var - 2 < 0 THEN [err |-> "ValueError", coeff |-> <<>>]
            ELSE LET last == (dst - 1) * Pow2(num_var - 2)
                 IN [err |-> "none",
                     coeff |-> [k \in 1..(num_var - 1) |-> Pow2(k - 1)] \o <<last>>]

\* name = c.name or f"c{i}", and the names made from it
SlackBase(c, i) == IF c.name.tag # "none" THEN c.name ELSE [pre |-> "", tag |-> "c", id |-> i]
EqName(base) == [base EXCEPT !.pre = "eq"]
SlackVar(base, k) == [pre |-> "sl", tag |-> base.tag, id |-> base.id, i |-> k, vtype |-> "Binary"]

\* a slack that is added whatever the comparator
Unsigned(c) == 1

\* `slack *= -1` for a >= constraint
SlackSign(c) == IF c.cmp = "Ge" THEN -1 ELSE 1

RECURSIVE SlackLoop(_, _, _)
\* the loop over the constraints the pass received; st is the model being
\* mutated in place, with slacks, to_remove and the error that ended it
SlackLoop(cs, i, st) ==
    IF i > Len(cs) THEN st
    ELSE IF cs[i].cmp = "Eq" THEN SlackLoop(cs, i + 1, st)
    ELSE
      LET c == cs[i]
          base == SlackBase(c, i - 1)
          enc == SlackCoeff(SlackRange(c))
          vars == [k \in 1..Len(enc.coeff) |-> SlackVar(base, k - 1)]
          sgn == SlackSign(c)
          slack == [k \in 1..Len(vars) |-> Term({vars[k]}, sgn * enc.coeff[k])]
      IN IF \E k \in 1..Len(c.lhs) : ~Supported(c.lhs[k])
         THEN [st EXCEPT !.err = "RuntimeError"]
         ELSE IF enc.err # "none" THEN [st EXCEPT !.err = enc.err]
         ELSE SlackLoop(cs, i + 1,
                [st EXCEPT !.variables = @ \o vars,
                           !.slacks = @ \o vars,
                           !.to_remove = Append(@, Addr(c, i - 1)),
                           !.constraints = Append(@, Constraint(EqName(base), c.lhs \o slack, "Eq", c.rhs))])

inequality_to_equality(m) ==
    LET st == SlackLoop(m.constraints, 1,
                  [variables |-> m.variables, constraints |-> m.constraints,
                   slacks |-> <<>>, to_remove |-> <<>>, err |-> "none"])
        r == RemoveEach(st.constraints, Reverse(st.to_remove))
    IN IF st.err # "none"
       THEN Outcome([m EXCEPT !.variables = st.variables, !.constraints = st.constraints],
                    "Failed", NoMeta, st.err)
       ELSE IF Len(st.to_remove) = 0 THEN OutcomeNothing(m)
       ELSE IF r.ok
       THEN Outcome([m EXCEPT !.variables = st.variables, !.constraints = r.cs],
                    "DidTransform", [NoMeta EXCEPT !.slacks = st.slacks], "none")
       ELSE Outcome([m EXCEPT !.variables = st.variables, !.constraints = r.cs],
                    "Failed", NoMeta, "NotFound")

\* ---------------------------------------------------- backward mappings
\* remove_slack: raises before it touches the solution
remove_slack(sol) == [sol |-> sol, err |-> "NotImplementedError"]

\* a mapping that returns the solution it was given
IdentityBackwards(sol) == [sol |-> sol, err |-> "none"]

\* a mapping that hands back the assignment with its objective value reset
ValueResetBackwards(sol) == [sol |-> [sol EXCEPT !.obj = 0], err |-> "none"]

\* QuadraticPenaltyPass.backwards
QuadraticPenaltyBackwards(sol) == IdentityBackwards(sol)

\* The results the backward mapping of pass p can have. remove_one_hot and
\* inequality_to_equality are registered with no backwards argument, and
\* remove_slack is the reverse step the source holds for the latter.
Backwards(p, sol) ==
    CASE p = "quadratic-penalty" -> {QuadraticPenaltyBackwards(sol)}
      [] p = "remove-one-hot" -> {IdentityBackwards(sol)}
      [] p = "inequality-to-equality" -> {IdentityBackwards(sol), remove_slack(sol)}

\* ------------------------------------------------------ pass declarations
Analyses == {"identify-one-hot", "max-bias", "optimal-coloring"}
Transformations == {"remove-one-hot", "quadratic-penalty", "inequality-to-equality"}

\* a pass registered without its `requires`
RequiresNothing(p) == {}

Requires(p) ==
    CASE p = "remove-one-hot" -> {"identify-one-hot"}
      [] p = "quadratic-penalty" -> {"max-bias"}
      [] OTHER -> {}

\* a pass registered without its `invalidates`
InvalidatesNothing(p) == {}

Invalidates(p) ==
    CASE p = "remove-one-hot" -> {"identify-one-hot"}
      [] OTHER -> {}

\* what analysis p computes on model m
Analyse(p, m) ==
    CASE p = "identify-one-hot" -> identify_one_hot(m)
      [] p = "max-bias" -> MaxBias(m)

\* the results analysis p can have on model m: a value or an error
AnalysisResults(p, m) ==
    IF p = "optimal-coloring" THEN optimal_coloring(m)
    ELSE {[err |-> "none", value |-> Analyse(p, m)]}

\* the outcomes transformation p can have on model m
Transform(p, m, c) ==
    CASE p = "remove-one-hot" -> remove_one_hot(m, c)
      [] p = "quadratic-penalty" -> {QuadraticPenaltyRun(m, c)}
      [] p = "inequality-to-equality" -> {inequality_to_equality(m)}

qubo_pipeline == <<"max-bias", "inequality-to-equality", "quadratic-penalty", "max-bias">>
xy_pipeline == <<"identify-one-hot", "remove-one-hot", "max-bias">>
\* pipelines a caller can build besides: a dependent before its analysis, and none
misordered_pipeline == <<"remove-one-hot", "identify-one-hot">>
empty_pipeline == <<>>

\* ---------------------------------------------------------- AnalysisCache
EmptyCache == [n \in {} |-> 0]
CachePut(c, name, value) == [n \in DOMAIN c \cup {name} |-> IF n = name THEN value ELSE c[n]]
CacheInvalidate(c, names) == [n \in DOMAIN c \ names |-> c[n]]

\* ----------------------------------------------------------------- inputs
\* one-hot groups over neighbouring variables, an inequality and a single
\* variable with the one-hot shape, and constraints that are not one-hot
XYPool ==
    {[lhs |-> Window(i, i + 1, 1), cmp |-> "Eq", rhs |-> 1] : i \in 1..(NumVars - 1)}
    \cup {[lhs |-> Window(1, 2, 1), cmp |-> "Le", rhs |-> 1],
          [lhs |-> Window(1, 1, 1), cmp |-> "Eq", rhs |-> 1],
          [lhs |-> Window(1, NumVars, 1), cmp |-> "Le", rhs |-> 2],
          [lhs |-> <<Term({X(1)}, 2), Term({X(2)}, 1)>>, cmp |-> "Eq", rhs |-> 1]}

\* inequalities over all variables with slack ranges 2..NumVars, an equality,
\* x1 + x2 <= 1, an inequality with a Quadratic term and one with a negative
\* coefficient
QuboPool ==
    {[lhs |-> Window(1, NumVars, 1), cmp |-> "Le", rhs |-> r] : r \in 2..NumVars}
    \cup {[lhs |-> Window(1, NumVars, 1), cmp |-> "Ge", rhs |-> 1],
          [lhs |-> Window(1, 2, 1), cmp |-> "Eq", rhs |-> 1],
          [lhs |-> Window(1, 2, 1), cmp |-> "Le", rhs |-> 1],
          [lhs |-> <<Term({X(1), X(2)}, 1), Term({X(3)}, 1)>>, cmp |-> "Le", rhs |-> 3],
          [lhs |-> <<Term({X(1)}, 1), Term({X(2)}, -1)>>, cmp |-> "Le", rhs |-> 2]}

SomeObjective == [terms |-> <<Term({X(1)}, 2), Term({X(1), X(2)}, -3)>>, offset |-> 0]

\* the constraints of a model: all named by the user, or all unnamed
Constraints(shapes, named) ==
    [k \in 1..Len(shapes) |->
        Constraint(IF named THEN UserName(k) ELSE NoName, shapes[k].lhs, shapes[k].cmp, shapes[k].rhs)]

\* ------------------------------------------------------------ evaluation
\* the value of the terms ts under the binary assignment a
SumTerms(ts, a) ==
    SumOver([k \in 1..Len(ts) |-> IF \A v \in ts[k].vs : a[v] = 1 THEN ts[k].coef ELSE 0],
            1..Len(ts))

\* the objective's value under assignment a
Evaluate(obj, a) == obj.offset + SumTerms(obj.terms, a)

\* sample(): an assignment over the variables of ir.model
Sampled(m, pat) ==
    LET a == [v \in SeqToSet(m.variables) |->
                 LET k == CHOOSE j \in 1..Len(m.variables) : m.variables[j] = v
                 IN CASE pat = 0 -> 0 [] pat = 1 -> 1 [] OTHER -> k % 2]
    IN [val |-> a, obj |-> Evaluate(m.objective, a)]

NoSolution == [val |-> EmptyCache, obj |-> 0]

\* ------------------------------------------------------------------ state
VARIABLES
    pipeline,   \* the passes of the PassManager, in order
    orig,       \* the caller's Model
    phase,      \* "forward", "ir", "sampled", "backward", "finished", "failed"
    pos,        \* forward: index of the next pass; backward: of the next log entry
    model,      \* the Model the pipeline owns
    cache,      \* the AnalysisCache
    log,        \* the transform log: <<[pass, meta]>> in execution order
    err,        \* the error that ended the run, "none" otherwise
    last,       \* the pass that ran last: what it received and how it ended
    sampled,    \* the solution as sample() returned it
    solution,   \* the solution being mapped back
    calls       \* the passes whose backward mapping was invoked, in order

vars == <<pipeline, orig, phase, pos, model, cache, log, err, last, sampled, solution, calls>>

NoPass == [pass |-> "none", outcome |-> "none", model |-> Model(<<>>, EmptyObjective, <<>>),
           cache |-> EmptyCache, log |-> <<>>]
\* pass p received the current model, cache and log and ended with `outcome`
Ran(p, outcome) == [pass |-> p, outcome |-> outcome, model |-> model, cache |-> cache, log |-> log]

\* the caller's pipeline and Model
Caller(pl, objective, shapes, named) ==
    /\ pipeline = pl
    /\ orig = Model(UserVars, objective, Constraints(shapes, named))

Init ==
    /\ \E n \in 0..MaxConstraints, named \in BOOLEAN :
          \/ \E shapes \in [1..n -> XYPool] :
                \E pl \in {xy_pipeline, misordered_pipeline, empty_pipeline} :
                    Caller(pl, SomeObjective, shapes, named)
          \/ \E shapes \in [1..n -> QuboPool] :
                \E objective \in {EmptyObjective, SomeObjective} :
                    Caller(qubo_pipeline, objective, shapes, named)
    /\ model = orig
    /\ phase = "forward"
    /\ pos = 1
    /\ cache = EmptyCache
    /\ log = <<>>
    /\ err = "none"
    /\ last = NoPass
    /\ sampled = NoSolution
    /\ solution = NoSolution
    /\ calls = <<>>

\* ---------------------------------------------------- PassManager.run
Current == pipeline[pos]
Pending == phase = "forward" /\ pos <= Len(pipeline)

\* a `requires` name is not in the cache: the run aborts, the pass is not run
MissingDependency ==
    /\ Pending
    /\ ~(Requires(Current) \subseteq DOMAIN cache)
    /\ phase' = "failed"
    /\ err' = "MissingDependency"
    /\ last' = Ran(Current, "NotRun")
    /\ UNCHANGED <<pipeline, orig, pos, model, cache, log, sampled, solution, calls>>

RunAnalysis ==
    /\ Pending
    /\ Current \in Analyses
    /\ Requires(Current) \subseteq DOMAIN cache
    /\ \E r \in AnalysisResults(Current, model) :
        /\ r.err = "none"
        /\ cache' = CachePut(cache, Current, r.value)
    /\ pos' = pos + 1
    /\ last' = Ran(Current, "Analysis")
    /\ UNCHANGED <<pipeline, orig, phase, model, log, err, sampled, solution, calls>>

\* the analysis raises: the run aborts
AnalysisRaises ==
    /\ Pending
    /\ Current \in Analyses
    /\ Requires(Current) \subseteq DOMAIN cache
    /\ \E r \in AnalysisResults(Current, model) :
        /\ r.err # "none"
        /\ err' = r.err
    /\ phase' = "failed"
    /\ last' = Ran(Current, "Failed")
    /\ UNCHANGED <<pipeline, orig, pos, model, cache, log, sampled, solution, calls>>

\* the pass returns an outcome: the model is replaced, and on DidTransform
\* the invalidated names are purged and the pass is logged
RunTransformation ==
    /\ Pending
    /\ Current \in Transformations
    /\ Requires(Current) \subseteq DOMAIN cache
    /\ \E out \in Transform(Current, model, cache) :
        /\ out.err = "none"
        /\ model' = out.model
        /\ cache' = IF out.action = "DidTransform"
                    THEN CacheInvalidate(cache, Invalidates(Current)) ELSE cache
        /\ log' = IF out.action = "DidTransform"
                  THEN Append(log, [pass |-> Current, meta |-> out.meta]) ELSE log
        /\ last' = Ran(Current, out.action)
    /\ pos' = pos + 1
    /\ UNCHANGED <<pipeline, orig, phase, err, sampled, solution, calls>>

\* the pass raises: the run aborts with the model as the pass left it
TransformationRaises ==
    /\ Pending
    /\ Current \in Transformations
    /\ Requires(Current) \subseteq DOMAIN cache
    /\ \E out \in Transform(Current, model, cache) :
        /\ out.err # "none"
        /\ model' = out.model
        /\ err' = out.err
        /\ last' = Ran(Current, "Failed")
    /\ phase' = "failed"
    /\ UNCHANGED <<pipeline, orig, pos, cache, log, sampled, solution, calls>>

\* a return that hands out the model without its constraints
ReturnUnconstrainedIR ==
    /\ phase = "forward"
    /\ pos > Len(pipeline)
    /\ phase' = "ir"
    /\ model' = [model EXCEPT !.constraints = <<>>]
    /\ UNCHANGED <<pipeline, orig, pos, cache, log, err, last, sampled, solution, calls>>

\* all passes ran: the IR bundle {model, cache, log} is returned
ReturnIR ==
    /\ phase = "forward"
    /\ pos > Len(pipeline)
    /\ phase' = "ir"
    /\ UNCHANGED <<pipeline, orig, pos, model, cache, log, err, last, sampled, solution, calls>>

\* ------------------------------------------------------------ MyQAOA.run
\* qaoa_circ_adv asserts an unconstrained, binary model
Unconstrained ==
    /\ Len(model.constraints) = 0
    /\ \A k \in 1..Len(model.variables) : model.variables[k].vtype = "Binary"

CircuitRejects ==
    /\ phase = "ir"
    /\ ~Unconstrained
    /\ phase' = "failed"
    /\ err' = "AssertionError"
    /\ UNCHANGED <<pipeline, orig, pos, model, cache, log, last, sampled, solution, calls>>

\* the names the circuit layer reads with ir.cache[name]: initial_state and
\* combined_mixer read remove-one-hot, cost_layer_adv max-bias and
\* optimal-coloring
CircuitReads == {"remove-one-hot", "max-bias", "optimal-coloring"}

\* ir.cache holds `name`: the result of an analysis, or the metadata of a
\* transformation that was logged
IRHolds(name) == name \in DOMAIN cache \/ \E k \in 1..Len(log) : log[k].pass = name

\* the variable groups of remove_one_hot["removed"]
RemovedGroups ==
    UNION {{log[k].meta.removed[j].vars : j \in 1..Len(log[k].meta.removed)} :
              k \in {i \in 1..Len(log) : log[i].pass = "remove-one-hot"}}

\* angle = val * gamma / max_bias, once per objective term
DivisionByZero ==
    /\ "max-bias" \in DOMAIN cache
    /\ cache["max-bias"] = 0
    /\ Len(model.objective.terms) > 0

\* How building the circuit can end ("none": it is built). The code goes on
\* with None where a name is absent (`is None`, `or range(...)`), so the
\* cache it was written against yields None; the cache of the specification
\* fails with NotComputed. Both are outcomes of reading an absent name.
\* With None the steps are: w_state asserts num >= 2 for every removed
\* group, None has no `.val`, and the angle is divided by max_bias.
CircuitOutcomes ==
    (IF \E n \in CircuitReads : ~IRHolds(n) THEN {"NotComputed"} ELSE {})
    \cup {IF \E g \in RemovedGroups : Len(g) < 2 THEN "AssertionError"
          ELSE IF ~IRHolds("max-bias") THEN "AttributeError"
          ELSE IF DivisionByZero THEN "ZeroDivisionError"
          ELSE "none"}

\* building the circuit raises
CircuitRaises ==
    /\ phase = "ir"
    /\ Unconstrained
    /\ \E e \in CircuitOutcomes \ {"none"} : err' = e
    /\ phase' = "failed"
    /\ UNCHANGED <<pipeline, orig, pos, model, cache, log, last, sampled, solution, calls>>

\* the circuit is built, optimised and sampled: a solution over ir.model
Sample ==
    /\ phase = "ir"
    /\ Unconstrained
    /\ "none" \in CircuitOutcomes
    /\ \E pat \in 0..2 : sampled' = Sampled(model, pat)
    /\ solution' = sampled'
    /\ phase' = "backward"
    /\ pos' = Len(log)
    /\ UNCHANGED <<pipeline, orig, model, cache, log, err, last, calls>>

\* PassManager.backwards: the log is replayed from its last entry to its first
BackwardStep ==
    /\ phase = "backward"
    /\ pos >= 1
    /\ \E r \in Backwards(log[pos].pass, solution) :
        /\ r.err = "none"
        /\ solution' = r.sol
    /\ calls' = Append(calls, log[pos].pass)
    /\ pos' = pos - 1
    /\ UNCHANGED <<pipeline, orig, phase, model, cache, log, err, last, sampled>>

BackwardRaises ==
    /\ phase = "backward"
    /\ pos >= 1
    /\ \E r \in Backwards(log[pos].pass, solution) :
        /\ r.err # "none"
        /\ solution' = r.sol
        /\ err' = r.err
    /\ calls' = Append(calls, log[pos].pass)
    /\ phase' = "failed"
    /\ UNCHANGED <<pipeline, orig, pos, model, cache, log, last, sampled>>

\* model.evaluate(...) of the mapped solution on the caller's model
EvaluateResult ==
    /\ phase = "backward"
    /\ pos = 0
    /\ phase' = "finished"
    /\ UNCHANGED <<pipeline, orig, pos, model, cache, log, err, last, sampled, solution, calls>>

Next ==
    \/ MissingDependency
    \/ RunAnalysis
    \/ RunTransformation
    \/ TransformationRaises
    \/ ReturnIR
    \/ CircuitRejects
    \/ CircuitRaises
    \/ Sample
    \/ BackwardStep
    \/ BackwardRaises
    \/ EvaluateResult

Spec == Init /\ [][Next]_vars

\* ------------------------------------------- single passes, other models
\* Forward runs of pipelines other than the two of the source, on models
\* with equalities next to inequalities and constraints named one by one.
penalty_pipeline == <<"max-bias", "quadratic-penalty">>

\* six terms of the same magnitude
WideObjective ==
    [terms |-> [k \in 1..NumVars |-> Term({X(k)}, -1)]
                 \o <<Term({X(1), X(2)}, -1), Term({X(3), X(4)}, -1)>>,
     offset |-> 0]

\* equalities and inequalities over the user's variables
PenaltyPool ==
    {[lhs |-> Window(1, 2, 1), cmp |-> "Eq", rhs |-> 1],
     [lhs |-> Window(2, 3, 1), cmp |-> "Eq", rhs |-> 1],
     [lhs |-> Window(1, 2, 1), cmp |-> "Le", rhs |-> 1],
     [lhs |-> Window(1, NumVars, 1), cmp |-> "Ge", rhs |-> 1]}

\* the constraints of a model: constraint k is named iff names[k]
ConstraintsNamed(shapes, names) ==
    [k \in 1..Len(shapes) |->
        Constraint(IF names[k] THEN UserName(k) ELSE NoName,
                   shapes[k].lhs, shapes[k].cmp, shapes[k].rhs)]

PenaltyCaller ==
    \E n \in 0..MaxConstraints :
        \E shapes \in [1..n -> PenaltyPool], names \in [1..n -> BOOLEAN] :
            \E objective \in {EmptyObjective, SomeObjective, WideObjective} :
                /\ pipeline = penalty_pipeline
                /\ orig = Model(UserVars, objective, ConstraintsNamed(shapes, names))

\* one-hot constraints over neighbouring variables, up to MaxOneHots of them
OneHotPool ==
    {[lhs |-> Window(i, i + 1, 1), cmp |-> "Eq", rhs |-> 1] : i \in 1..(NumVars - 1)}
    \cup {[lhs |-> Window(1, 3, 1), cmp |-> "Eq", rhs |-> 1],
          [lhs |-> <<Term({X(1)}, 2), Term({X(2)}, 1)>>, cmp |-> "Eq", rhs |-> 1]}

OneHotCaller ==
    \E n \in 0..MaxOneHots, named \in BOOLEAN :
        \E shapes \in [1..n -> OneHotPool] :
            Caller(xy_pipeline, SomeObjective, shapes, named)

\* inequality-to-equality alone, on models with an integer variable y and
\* with terms the encoding does not support, in inequalities and equalities
slack_pipeline == <<"inequality-to-equality">>
Y == [pre |-> "y", tag |-> "user", id |-> 1, i |-> 0, vtype |-> "Integer"]

UnsupportedLhs ==
    {<<Term({X(1), X(2)}, 1), Term({X(3)}, 1)>>,
     <<Term({X(1)}, 1), Term({Y}, 1)>>,
     <<FractionalTerm({X(1)}, 1), Term({X(2)}, 1)>>}

SlackPool ==
    {[lhs |-> l, cmp |-> c, rhs |-> 3] : l \in UnsupportedLhs, c \in {"Le", "Eq"}}
    \cup {[lhs |-> Window(1, 3, 1), cmp |-> "Le", rhs |-> 3],
          [lhs |-> Window(1, 2, 1), cmp |-> "Le", rhs |-> 1]}

SlackCaller ==
    \E n \in 0..MaxConstraints, named \in BOOLEAN :
        \E shapes \in [1..n -> SlackPool] :
            /\ pipeline = slack_pipeline
            /\ orig = Model(Append(UserVars, Y), EmptyObjective, Constraints(shapes, named))

\* optimal-coloring alone, on objectives of up to MaxTerms terms
coloring_pipeline == <<"optimal-coloring">>

TermPool ==
    {{X(1)}, {X(2)}, {X(1), X(2)}, {X(2), X(3)}, {X(3), X(4)}, {X(1), X(2), X(3)}}

ColoringCaller ==
    \E n \in 0..MaxTerms :
        \E keys \in [1..n -> TermPool] :
            /\ \A i, j \in 1..n : i # j => keys[i] # keys[j]
            /\ pipeline = coloring_pipeline
            /\ orig = Model(UserVars, [terms |-> [k \in 1..n |-> Term(keys[k], 1)], offset |-> 0], <<>>)

PassInit ==
    /\ (PenaltyCaller \/ OneHotCaller \/ SlackCaller \/ ColoringCaller)
    /\ model = orig
    /\ phase = "forward"
    /\ pos = 1
    /\ cache = EmptyCache
    /\ log = <<>>
    /\ err = "none"
    /\ last = NoPass
    /\ sampled = NoSolution
    /\ solution = NoSolution
    /\ calls = <<>>

PassNext ==
    \/ RunAnalysis
    \/ AnalysisRaises
    \/ RunTransformation
    \/ TransformationRaises
    \/ ReturnIR

PassSpec == PassInit /\ [][PassNext]_vars

\* ----------------------------------------------------------------- claims
LogPasses == [k \in 1..Len(log) |-> log[k].pass]
PositionIn(seq, x) == CHOOSE k \in 1..Len(seq) : seq[k] = x
\* every variable a constraint mentions
ConstraintVars(c) == UNION {c.lhs[k].vs : k \in 1..Len(c.lhs)}
\* the sequence s without the positions in D
Without(s, D) ==
    LET keep == SelectSeq(Indexed(s), LAMBDA p : p.k \notin D)
    IN [k \in 1..Len(keep) |-> keep[k].v]
Satisfies(c, a) ==
    LET l == SumTerms(c.lhs, a)
    IN CASE c.cmp = "Eq" -> l = c.rhs
         [] c.cmp = "Le" -> l <= c.rhs
         [] c.cmp = "Ge" -> l >= c.rhs
Merge(a, b) == [v \in DOMAIN a \cup DOMAIN b |-> IF v \in DOMAIN a THEN a[v] ELSE b[v]]
\* the slack variables the forward run recorded in the log
RecordedSlacks == UNION {SeqToSet(log[k].meta.slacks) : k \in 1..Len(log)}

\* C1: a transformation that ends DidTransform is appended to the log with
\* its metadata, behind the entries already there and in pipeline order, and
\* the names it invalidates (identify-one-hot for remove-one-hot) are gone
\* from the cache while every other entry stays; one that ends NoChange
\* leaves the log and the cache as they were.
C1_LoggedAndPurged ==
    /\ last.outcome = "DidTransform" =>
        /\ Len(log) = Len(last.log) + 1
        /\ SubSeq(log, 1, Len(last.log)) = last.log
        /\ log[Len(log)].pass = last.pass
        /\ last.pass = "remove-one-hot" =>
            /\ "identify-one-hot" \notin DOMAIN cache
            /\ LET meta == log[Len(log)].meta
               IN {meta.removed[k].addr : k \in 1..Len(meta.removed)} \cup SeqToSet(meta.remaining)
                    = SeqToSet(last.cache["identify-one-hot"])
        /\ last.pass = "inequality-to-equality" =>
            SeqToSet(log[Len(log)].meta.slacks)
              = SeqToSet(model.variables) \ SeqToSet(last.model.variables)
        /\ \A n \in DOMAIN last.cache \ {"identify-one-hot"} :
              n \in DOMAIN cache /\ cache[n] = last.cache[n]
    /\ last.outcome = "NoChange" => log = last.log /\ cache = last.cache
    /\ \A i, j \in 1..Len(log) :
          i < j => PositionIn(pipeline, log[i].pass) < PositionIn(pipeline, log[j].pass)

\* remove-one-hot has just deleted constraints and was logged
C1_Witness ==
    /\ last.pass = "remove-one-hot"
    /\ last.outcome = "DidTransform"
    /\ "identify-one-hot" \in DOMAIN last.cache
    /\ Len(log) = 1
    /\ Len(model.constraints) < Len(last.model.constraints)

\* C2: after each pass of a forward run, every entry of the cache is what
\* its analysis computes on the current Model.
C2_CacheFresh ==
    err = "none" => \A n \in DOMAIN cache : cache[n] = Analyse(n, model)

\* C3: when a transformation fails, the Model is exactly as the pass
\* received it.
C3_FailureLeavesModel ==
    last.outcome = "Failed" => model = last.model

\* C4: after remove-one-hot returns DidTransform, the constraints are the
\* received ones without those addressed by the keys of `removed`, in the
\* same order, and each key maps to its constraint's variables.
C4_ExactlyRemoved ==
    (last.pass = "remove-one-hot" /\ last.outcome = "DidTransform") =>
        LET meta == log[Len(log)].meta
            before == last.model.constraints
            keys == {meta.removed[k].addr : k \in 1..Len(meta.removed)}
        IN /\ model.constraints = Without(before, {k \in 1..Len(before) : Addr(before[k], k - 1) \in keys})
           /\ \A k \in 1..Len(meta.removed) :
                 meta.removed[k].vars = LinearVars(before[Locate(before, meta.removed[k].addr)])

\* C5: the constraints one run of remove-one-hot deletes are pairwise
\* disjoint in their variables.
C5_RemovedDisjoint ==
    (last.pass = "remove-one-hot" /\ last.outcome \in {"DidTransform", "Failed"}) =>
        LET before == last.model.constraints
        IN \E D \in SUBSET (1..Len(before)) :
              /\ model.constraints = Without(before, D)
              /\ \A i, j \in D :
                    i # j => ConstraintVars(before[i]) \cap ConstraintVars(before[j]) = {}

\* C6: on a model whose only constraint is x1 + x2 <= 1, inequality-to-
\* equality ends DidTransform with one new binary variable s and the single
\* constraint x1 + x2 + s = 1.
C6_SingleSlack ==
    (/\ Len(orig.constraints) = 1
     /\ orig.constraints[1].lhs = Window(1, 2, 1)
     /\ orig.constraints[1].cmp = "Le"
     /\ orig.constraints[1].rhs = 1
     /\ last.pass = "inequality-to-equality") =>
        /\ last.outcome = "DidTransform"
        /\ Len(model.variables) = Len(orig.variables) + 1
        /\ SubSeq(model.variables, 1, Len(orig.variables)) = orig.variables
        /\ model.variables[Len(model.variables)].vtype = "Binary"
        /\ Len(model.constraints) = 1
        /\ model.constraints[1].cmp = "Eq"
        /\ model.constraints[1].rhs = 1
        /\ model.constraints[1].lhs
             = Window(1, 2, 1) \o <<Term({model.variables[Len(model.variables)]}, 1)>>

\* C7: for every inequality the pass rewrote, an assignment of the original
\* variables satisfies the inequality iff some assignment of the slack
\* variables makes it satisfy the equality that replaced it.
C7_SlackEquivalence ==
    (last.pass = "inequality-to-equality" /\ last.outcome = "DidTransform") =>
        LET before == last.model.constraints
        IN \A i \in 1..Len(before) :
              before[i].cmp # "Eq" =>
                LET c == before[i]
                    eq == model.constraints[Locate(model.constraints, ByName(EqName(SlackBase(c, i - 1))))]
                    sl == ConstraintVars(eq) \ ConstraintVars(c)
                IN \A a \in [SeqToSet(orig.variables) -> {0, 1}] :
                      Satisfies(c, a) <=> \E b \in [sl -> {0, 1}] : Satisfies(eq, Merge(a, b))

\* C8: once the backward mapping of inequality-to-equality has been applied
\* the solution holds exactly the pre-existing variables, with the values
\* they had, and no recorded slack variable.
C8_SlacksDropped ==
    (calls # <<>> /\ calls[Len(calls)] = "inequality-to-equality") =>
        /\ err = "none"
        /\ DOMAIN solution.val = SeqToSet(model.variables) \ RecordedSlacks
        /\ \A v \in DOMAIN solution.val : solution.val[v] = sampled.val[v]

\* C9: when the backward entry point ends, it has invoked the backward
\* mappings of the logged transformations in reverse log order, each once,
\* and the solution is over exactly the original Model's variables.
C9_ReverseReplay ==
    (phase = "finished" \/ (phase = "failed" /\ calls # <<>>)) =>
        /\ err = "none"
        /\ calls = Reverse(LogPasses)
        /\ DOMAIN solution.val = SeqToSet(orig.variables)

\* C10: a pass whose `requires` name is not in the cache at its turn is not
\* run: the forward run ends with MissingDependency, the Model, the cache and
\* the log as they were, and no pass after it has run in its place.
C10_MissingDependency ==
    /\ err = "MissingDependency" =>
          last.outcome = "NotRun" /\ model = last.model /\ cache = last.cache /\ log = last.log
    /\ (last.pass = "remove-one-hot" /\ "identify-one-hot" \notin DOMAIN last.cache) =>
          err = "MissingDependency" /\ last.outcome = "NotRun" /\ model = last.model
    /\ (last.pass = "quadratic-penalty" /\ "max-bias" \notin DOMAIN last.cache) =>
          err = "MissingDependency" /\ last.outcome = "NotRun" /\ model = last.model
    /\ pipeline = misordered_pipeline =>
          /\ model = orig
          /\ "identify-one-hot" \notin DOMAIN cache
          /\ last.pass \in {"none", "remove-one-hot"}

\* remove-one-hot listed before identify-one-hot, on a model with a one-hot
\* constraint: the run aborted and the constraint is still there
C10_Witness ==
    /\ pipeline = misordered_pipeline
    /\ err = "MissingDependency"
    /\ last.pass = "remove-one-hot"
    /\ \E k \in 1..Len(model.constraints) : OneHotTest(model.constraints[k])
    /\ model = orig

\* C11: after quadratic-penalty the Model holds no equality and holds every
\* other constraint it had, unchanged and in the same order, for named and
\* positional addresses alike; without an equality the pass ends NoChange
\* with the Model as it was.
C11_EqualitiesFolded ==
    (last.pass = "quadratic-penalty" /\ last.outcome # "NotRun") =>
        LET before == last.model.constraints
            eqs == {k \in 1..Len(before) : before[k].cmp = "Eq"}
        IN /\ last.outcome \in {"DidTransform", "NoChange"}
           /\ model.constraints = Without(before, eqs)
           /\ model.variables = last.model.variables
           /\ eqs = {} => last.outcome = "NoChange" /\ model = last.model
           /\ eqs # {} => last.outcome = "DidTransform"

\* two unnamed equalities in front of an inequality were folded, and the
\* inequality is what is left
C11_Witness ==
    /\ last.pass = "quadratic-penalty"
    /\ last.outcome = "DidTransform"
    /\ Len(last.model.constraints) = 3
    /\ \A k \in 1..2 : last.model.constraints[k].cmp = "Eq"
                       /\ last.model.constraints[k].name = NoName
    /\ last.model.constraints[3].cmp = "Le"
    /\ model.constraints = <<last.model.constraints[3]>>

\* C12: after quadratic-penalty every assignment that violates a folded
\* equality has a strictly larger objective value than every assignment
\* that satisfies all folded equalities.
C12_PenaltyDominates ==
    (last.pass = "quadratic-penalty" /\ last.outcome = "DidTransform") =>
        LET before == last.model.constraints
            eqs == {k \in 1..Len(before) : before[k].cmp = "Eq"}
            A == [SeqToSet(model.variables) -> {0, 1}]
        IN \A a, b \in A :
              ((\E k \in eqs : ~Satisfies(before[k], a)) /\ (\A k \in eqs : Satisfies(before[k], b)))
                  => Evaluate(model.objective, a) > Evaluate(model.objective, b)

\* C13: remove-one-hot and quadratic-penalty leave the Model's variables as
\* they were, and the backward mapping of each returns the solution it was
\* given: every variable's value and the objective value.
C13_VariablesAndSolutionKept ==
    /\ (last.pass \in {"remove-one-hot", "quadratic-penalty"} /\ last.outcome # "NotRun") =>
          model.variables = last.model.variables
    /\ (Len(calls) = 1 /\ calls[1] \in {"remove-one-hot", "quadratic-penalty"}) =>
          /\ err = "none"
          /\ solution = sampled
          /\ DOMAIN solution.val = SeqToSet(model.variables)

\* the backward mapping of quadratic-penalty was applied to a sampled
\* solution with a non-zero objective value
C13_Witness ==
    /\ calls = <<"quadratic-penalty">>
    /\ sampled.obj # 0
    /\ \E v \in DOMAIN sampled.val : sampled.val[v] = 1
    /\ solution = sampled

\* C14: remove-one-hot on equal Models yields the same `removed`, the same
\* `remaining` and the same constraints: whatever results the pass can have
\* on the Model and cache it received are one and the same.
C14_SelectionDetermined ==
    (last.pass = "remove-one-hot" /\ last.outcome # "NotRun") =>
        \A o1, o2 \in remove_one_hot(last.model, last.cache) :
            /\ o1.meta.removed = o2.meta.removed
            /\ o1.meta.remaining = o2.meta.remaining
            /\ o1.model.constraints = o2.model.constraints

\* the error the source raises for a constraint the encoding does not support
UnsupportedConstraint == "RuntimeError"
\* c is an inequality with a lhs term that is not Linear, not over a binary
\* variable, or not integer-weighted
UnsupportedInequality(c) ==
    /\ c.cmp # "Eq"
    /\ \E k \in 1..Len(c.lhs) :
          \/ Cardinality(c.lhs[k].vs) # 1
          \/ \E v \in c.lhs[k].vs : v.vtype # "Binary"
          \/ "frac" \in DOMAIN c.lhs[k]

\* C15: inequality-to-equality fails with UnsupportedConstraint whenever an
\* inequality has an unsupported lhs term, and does not fail so when such
\* terms occur in equalities only.
C15_UnsupportedRejected ==
    (last.pass = "inequality-to-equality" /\ last.outcome # "NotRun") =>
        LET before == last.model.constraints
            bad == \E k \in 1..Len(before) : UnsupportedInequality(before[k])
        IN /\ bad => (last.outcome = "Failed" /\ err = UnsupportedConstraint)
           /\ ~bad => err # UnsupportedConstraint

\* every lhs term of c is over one variable, weighted with the rhs of c
EqualWeighted(c) ==
    \A j \in 1..Len(c.lhs) : Cardinality(c.lhs[j].vs) = 1 /\ c.lhs[j].coef = c.rhs
\* the name of constraint k of cs if it has one, its position otherwise
AddressOf(cs, k) ==
    IF cs[k].name = NoName
    THEN [byName |-> FALSE, name |-> NoName, pos |-> k - 1]
    ELSE [byName |-> TRUE, name |-> cs[k].name, pos |-> 0]

\* C16: identify-one-hot returns, in constraint order, the addresses of
\* exactly the constraints whose lhs terms are all Linear with a coefficient
\* equal to the rhs: x1 + x2 + x3 == 1 is in, 2*x1 + x2 == 1 is not; the
\* Model, the log and the other cache entries stay as they were.
C16_OneHotsIdentified ==
    (last.pass = "identify-one-hot" /\ last.outcome = "Analysis") =>
        LET cs == last.model.constraints
            res == cache["identify-one-hot"]
            hits == Ascending({k \in 1..Len(cs) : EqualWeighted(cs[k])})
        IN /\ res = [i \in 1..Len(hits) |-> AddressOf(cs, hits[i])]
           /\ \A k \in 1..Len(cs) :
                 /\ (cs[k].lhs = Window(1, 3, 1) /\ cs[k].rhs = 1)
                       => \E i \in 1..Len(res) : res[i] = AddressOf(cs, k)
                 /\ (cs[k].lhs = <<Term({X(1)}, 2), Term({X(2)}, 1)>> /\ cs[k].rhs = 1)
                       => \A i \in 1..Len(res) : res[i] # AddressOf(cs, k)
           /\ model = last.model
           /\ log = last.log
           /\ DOMAIN cache = DOMAIN last.cache \cup {"identify-one-hot"}
           /\ \A n \in DOMAIN last.cache \ {"identify-one-hot"} : cache[n] = last.cache[n]

\* the analysis ran on 2*x1 + x2 == 1 followed by x1 + x2 + x3 == 1 and
\* reported the second
C16_Witness ==
    /\ last.pass = "identify-one-hot"
    /\ last.outcome = "Analysis"
    /\ Len(model.constraints) >= 2
    /\ model.constraints[1].lhs = <<Term({X(1)}, 2), Term({X(2)}, 1)>>
    /\ model.constraints[2].lhs = Window(1, 3, 1)
    /\ Len(cache["identify-one-hot"]) >= 1
    /\ cache["identify-one-hot"][1] = AddressOf(model.constraints, 2)

\* C17: the order optimal-coloring returns lists every Linear term before
\* every non-Linear term and the non-Linear terms in non-decreasing colour,
\* and two non-Linear terms of one colour share no variable.
C17_LinearFirstThenColours ==
    (last.pass = "optimal-coloring" /\ last.outcome = "Analysis") =>
        LET ts == model.objective.terms
            order == cache["optimal-coloring"].order
            colour == cache["optimal-coloring"].colour
            linear(i) == Cardinality(ts[order[i] + 1].vs) = 1
        IN /\ Len(order) = Len(ts)
           /\ {order[i] : i \in 1..Len(order)} = 0..(Len(ts) - 1)
           /\ \A i, j \in 1..Len(order) :
                 i < j =>
                    /\ linear(j) => linear(i)
                    /\ (~linear(i) /\ ~linear(j)) => colour[order[i]] <= colour[order[j]]
           /\ DOMAIN colour = {t \in 0..(Len(ts) - 1) : Cardinality(ts[t + 1].vs) # 1}
           /\ \A s, t \in DOMAIN colour :
                 (s # t /\ colour[s] = colour[t]) => ts[s + 1].vs \cap ts[t + 1].vs = {}

\* x1*x2, x1, x2*x3 in this order: the Linear term was moved to the front
\* and the two Quadratic terms, which share x2, got different colours
C17_Witness ==
    /\ last.pass = "optimal-coloring"
    /\ last.outcome = "Analysis"
    /\ Len(model.objective.terms) = 3
    /\ model.objective.terms[1].vs = {X(1), X(2)}
    /\ model.objective.terms[2].vs = {X(1)}
    /\ model.objective.terms[3].vs = {X(2), X(3)}
    /\ cache["optimal-coloring"].order = <<1, 2, 0>>
    /\ cache["optimal-coloring"].colour[2] < cache["optimal-coloring"].colour[0]

\* C18: a read of a cache entry that is absent fails with NotComputed and
\* never yields a default, the reads of the circuit layer included: a
\* circuit is built and sampled only on an IR that holds remove-one-hot,
\* max-bias and optimal-coloring, and on any other IR the run fails with
\* NotComputed.
C18_AbsentReadFails ==
    /\ (phase \in {"backward", "finished"} \/ calls # <<>>) =>
           \A n \in CircuitReads : IRHolds(n)
    /\ (phase = "ir" /\ Unconstrained /\ \E n \in CircuitReads : ~IRHolds(n)) =>
           CircuitOutcomes = {"NotComputed"}

\* C19: max-bias on an objective without terms, or with zero coefficients
\* only, yields 0 without failing, and no run ends in a division by that
\* zero.
C19_ZeroBiasGuarded ==
    /\ (phase = "forward" /\ last.pass = "max-bias" /\ last.outcome = "Analysis"
            /\ \A k \in 1..Len(model.objective.terms) : model.objective.terms[k].coef = 0) =>
           (cache["max-bias"] = 0 /\ err = "none")
    /\ err # "ZeroDivisionError"

\* C20: a forward run with an empty pipeline returns the model as the caller
\* gave it (variables, objective, constraints) and an empty log.
C20_EmptyPipelineIdentity ==
    (pipeline = empty_pipeline /\ phase # "forward") =>
        /\ model.variables = orig.variables
        /\ model.objective = orig.objective
        /\ model.constraints = orig.constraints
        /\ log = <<>>
        /\ cache = EmptyCache

\* the empty pipeline returned a model with three constraints
C20_Witness ==
    /\ pipeline = empty_pipeline
    /\ phase = "ir"
    /\ Len(orig.constraints) = 3
    /\ Len(model.constraints) = 3
    /\ log = <<>>

\* the variables of the constraint that address a names in cs
VarsAt(cs, a) == ConstraintVars(cs[Locate(cs, a)])

\* C21: the constraints remove-one-hot removes are a maximal independent set
\* of the conflict graph over all identified one-hot constraints: no two
\* removed ones share a variable, every identified one that is not removed
\* shares a variable with a removed one, and `remaining` holds only
\* constraints that conflict with another identified one.
C21_MaximalIndependent ==
    (last.pass = "remove-one-hot" /\ last.outcome = "DidTransform") =>
        LET meta == log[Len(log)].meta
            before == last.model.constraints
            identified == SeqToSet(last.cache["identify-one-hot"])
            removed == {meta.removed[k].addr : k \in 1..Len(meta.removed)}
            conflict(a, b) == a # b /\ VarsAt(before, a) \cap VarsAt(before, b) # {}
        IN /\ removed \subseteq identified
           /\ \A a, b \in removed : ~conflict(a, b)
           /\ \A a \in identified \ removed : \E b \in removed : conflict(a, b)
           /\ \A a \in SeqToSet(meta.remaining) : \E b \in identified : conflict(a, b)

\* the equality that replaced inequality i of the constraints `before`
ReplacedBy(before, i) ==
    model.constraints[Locate(model.constraints, ByName(EqName(SlackBase(before[i], i - 1))))]

\* the weights of the slack variables in the equality that replaced
\* inequality i
SlackWeights(before, i) ==
    LET eq == ReplacedBy(before, i)
        n == Len(eq.lhs) - Len(before[i].lhs)
    IN [k \in 1..n |-> Abs(eq.lhs[Len(before[i].lhs) + k].coef)]

\* C22: for every slack range 0..d, d >= 1, the pass encoded, the weights
\* are 1, 2, 4, ... for all but the last slack variable, they sum to d, every
\* integer in 0..d is the sum of some of them, and fewer binary variables
\* could not represent the range.
C22_SlackWeights ==
    (last.pass = "inequality-to-equality" /\ last.outcome = "DidTransform") =>
        LET before == last.model.constraints
        IN \A i \in 1..Len(before) :
              (before[i].cmp # "Eq" /\ SlackRange(before[i]) >= 1) =>
                LET d == SlackRange(before[i])
                    w == SlackWeights(before, i)
                    n == Len(w)
                IN /\ n >= 1
                   /\ \A k \in 1..(n - 1) : w[k] = Pow2(k - 1)
                   /\ SumOver(w, 1..n) = d
                   /\ \A v \in 0..d : \E S \in SUBSET (1..n) : SumOver(w, S) = v
                   /\ Pow2(n - 1) <= d

\* C23: after inequality-to-equality succeeds no inequality is left: the
\* equalities the model had come first, unchanged and in their order, then
\* one equality per inequality, lhs + slack = rhs for <= and lhs - slack =
\* rhs for >=, over slack variables the model did not have; a model without
\* inequalities comes back unchanged with NoChange.
C23_InequalitiesReplaced ==
    (last.pass = "inequality-to-equality" /\ last.outcome \in {"DidTransform", "NoChange"}) =>
        LET before == last.model.constraints
            ineqs == {i \in 1..Len(before) : before[i].cmp # "Eq"}
            kept == Without(before, ineqs)
            nth(k) == Ascending(ineqs)[k]
        IN /\ last.outcome = "NoChange" <=> ineqs = {}
           /\ last.outcome = "NoChange" => model = last.model
           /\ \A k \in 1..Len(model.constraints) : model.constraints[k].cmp = "Eq"
           /\ Len(model.constraints) = Len(before)
           /\ SubSeq(model.constraints, 1, Len(kept)) = kept
           /\ \A k \in 1..Cardinality(ineqs) :
                 LET c == before[nth(k)]
                     eq == model.constraints[Len(kept) + k]
                     n == Len(eq.lhs) - Len(c.lhs)
                 IN /\ n >= 1
                    /\ eq.rhs = c.rhs
                    /\ SubSeq(eq.lhs, 1, Len(c.lhs)) = c.lhs
                    /\ \A j \in 1..n :
                          LET t == eq.lhs[Len(c.lhs) + j]
                          IN /\ IsLinear(t)
                             /\ VarOf(t) \in SeqToSet(model.variables) \ SeqToSet(last.model.variables)
                             /\ VarOf(t).vtype = "Binary"
                             /\ (c.cmp = "Le" => t.coef > 0)
                             /\ (c.cmp = "Ge" => t.coef < 0)
                             /\ \A o \in 1..Len(model.constraints) :
                                   o # Len(kept) + k => VarOf(t) \notin ConstraintVars(model.constraints[o])

\* the pass rewrote a <= and a >= inequality that stood next to an equality
C23_Witness ==
    /\ last.pass = "inequality-to-equality"
    /\ last.outcome = "DidTransform"
    /\ Len(last.model.constraints) = 3
    /\ \E i, j, k \in 1..3 :
          /\ last.model.constraints[i].cmp = "Eq"
          /\ last.model.constraints[j].cmp = "Le"
          /\ last.model.constraints[k].cmp = "Ge"
    /\ Len(model.constraints) = 3
    /\ \A k \in 1..3 : model.constraints[k].cmp = "Eq"

\* C24: in the order optimal-coloring returns, two non-Linear terms of one
\* colour stand in the order they have in the objective, whatever order the
\* colouring routine reports its assignments in.
C24_TiesKeepTermOrder ==
    (last.pass = "optimal-coloring" /\ last.outcome = "Analysis") =>
        LET order == cache["optimal-coloring"].order
            colour == cache["optimal-coloring"].colour
            place(t) == CHOOSE k \in 1..Len(order) : order[k] = t
        IN \A s, t \in DOMAIN colour :
              (s < t /\ colour[s] = colour[t]) => place(s) < place(t)

\* C25: on every objective, HigherOrder terms included, optimal-coloring
\* completes without error and its result holds every term index exactly
\* once.
C25_ColoringCompletes ==
    (last.pass = "optimal-coloring" /\ last.outcome # "NotRun") =>
        /\ last.outcome = "Analysis"
        /\ err = "none"
        /\ LET order == cache["optimal-coloring"].order
               n == Len(model.objective.terms)
           IN /\ Len(order) = n
              /\ \A t \in 0..(n - 1) : Cardinality({k \in 1..n : order[k] = t}) = 1

\* the inequalities among the constraints cs
Inequalities(cs) == SelectSeq(cs, LAMBDA c : c.cmp # "Eq")

\* C26: identify-one-hot reports equality constraints only, and remove-one-
\* hot removes no inequality: the inequalities of the model are after the
\* pass what they were before it.
C26_OnlyEqualities ==
    /\ (last.pass = "identify-one-hot" /\ last.outcome = "Analysis") =>
          \A k \in 1..Len(cache["identify-one-hot"]) :
             model.constraints[Locate(model.constraints, cache["identify-one-hot"][k])].cmp = "Eq"
    /\ (last.pass = "remove-one-hot" /\ last.outcome # "NotRun") =>
          Inequalities(model.constraints) = Inequalities(last.model.constraints)

\* C27: every variable group remove-one-hot records under `removed` has at
\* least two variables, so on an IR of xy_pipeline the num >= 2 assertions
\* of w_state and xy_mixer hold.
C27_GroupsOfTwo ==
    pipeline = xy_pipeline =>
        /\ \A g \in RemovedGroups : Len(g) >= 2
        /\ (phase = "ir" /\ Unconstrained) => "AssertionError" \notin CircuitOutcomes

====
